---- MODULE Spec2Model ----
(***************************************************************************)
(* Model of the DXL client configuration node (src/nodes/dxl-client.js):   *)
(* a coordinator that shares one underlying DXL client between a changing  *)
(* set of user nodes.  The coordinator's fields and methods are translated *)
(* from the source; the underlying client (@opendxl/dxl-client) is the     *)
(* environment: it accepts connect/disconnect/destroy, reports             *)
(* `connected`, and emits connect/reconnect/close asynchronously.          *)
(***************************************************************************)
EXTENDS Integers, FiniteSets, Sequences, TLC

\* ---------------------------------------------------------------- bounds
NumIds == 2          \* user node ids are 1..NumIds
MaxHandlers == 2     \* cap on client.connect() invocations (handler sets)
MaxTeardowns == 2    \* cap on 'close' events delivered to the config node
MaxPending == 1      \* cap on disconnect(done) callbacks held by the client
NumTopics == 2       \* topics used by the event-callback facade
NumCallbacks == 1    \* event callbacks used by the event-callback facade
CallsTracked == 3    \* register/unregister/teardown calls counted per period

Ids == 1..NumIds
Topics == 1..NumTopics
Callbacks == 1..NumCallbacks

VARIABLES
  connected,       \* this.connected
  _connecting,     \* this._connecting
  _closing,        \* this._closing
  _users,          \* keys of this._users
  handlers,        \* sets of connect/reconnect/close listeners on the client
  clientState,     \* underlying client: new, open, ending, idle, destroying, destroyed
  clientConnected, \* this._client.connected
  pendingDone,     \* unregister `done` callbacks held by client.disconnect(done)
  closeOnce,       \* teardown `done` callbacks held by client.once('close')
  teardownCalls,   \* 'close' events delivered to the config node
  teardownResolved,\* teardown `done` callbacks invoked so far
  destroyCalls,    \* client.destroy() invocations so far
  periodConnects,  \* client.connect() invocations since _users last became non-empty
  periodCalls,     \* register/unregister/teardown calls since then (saturating)
  lastStatus,      \* last status each user node received since it registered
  last             \* what the most recent operation did

vars == <<connected, _connecting, _closing, _users, handlers, clientState,
          clientConnected, pendingDone, closeOnce, teardownCalls,
          teardownResolved, destroyCalls, periodConnects, periodCalls,
          lastStatus, last>>

coordVars == <<connected, _connecting, _closing, _users, handlers>>
clientVars == <<clientState, clientConnected, pendingDone, closeOnce>>
tearVars == <<teardownCalls, teardownResolved, destroyCalls>>

\* ------------------------------------------------------- status tuples
StatusConnected == "green/dot/connected"
StatusConnecting == "yellow/ring/connecting"
StatusDisconnected == "red/ring/disconnected"
NoStatus == "none"

NoCalls == [i \in Ids |-> 0]

\* Record of one operation: the state it started from and what it did.
Effect(op, id) ==
  [op |-> op, id |-> id,
   usersBefore |-> _users, closingBefore |-> _closing,
   connectedBefore |-> connected, connectingBefore |-> _connecting,
   clientConnectedBefore |-> clientConnected,
   connectCalled |-> FALSE, disconnectCalled |-> "none",
   destroyCalled |-> FALSE,
   unregDone |-> 0, teardownDone |-> 0,
   status |-> NoStatus, times |-> NoCalls,
   args |-> <<>>, delegated |-> <<>>, result |-> "none"]

\* ------------------------------------------------- underlying client
\* client.connect(): starts a session unless the client is being destroyed.
ClientAfterConnect(s) ==
  IF s \in {"destroying", "destroyed"} THEN s ELSE "open"

\* client.disconnect(): an open session starts ending.
ClientAfterDisconnect(s) ==
  IF s = "open" THEN "ending" ELSE s

\* client.destroy(): a live session still reports one final close.
ClientAfterDestroy(s) ==
  IF s \in {"open", "ending", "destroying"} THEN "destroying" ELSE "destroyed"

\* Outcome of a send on the underlying client after `attempts` calls of
\* client.connect(): DxlError when no connect attempt was ever made (also
\* once the client is destroyed), otherwise success or a client error.
ClientSendResult(attempts) ==
  IF attempts = 0 THEN {"NotConnected"} ELSE {"ok", "UnderlyingClientError"}

\* ------------------------------------------------------ coordinator
\* mutant: a connection already established is not consulted
ConnectGuard_Mutant == ~_connecting

\* _connect guard, line 93
ConnectGuard == ~connected /\ ~_connecting

\* registerUserNode, line 153: Object.keys(node._users).length === 1
IsOnlyUser(users) == Cardinality(users) = 1

\* mutant: the closing latch is not consulted
UnregisterShortCircuit_Mutant == FALSE

\* unregisterUserNode, line 168
UnregisterShortCircuit == _closing

\* mutant: the last remaining user node is counted as none
NoUsersLeft_Mutant(users) == Cardinality(users) <= 1

\* unregisterUserNode, line 171: Object.keys(node._users).length === 0
NoUsersLeft(users) == Cardinality(users) = 0

\* mutant: the disconnect is never awaited
AwaitDisconnect_Mutant == FALSE

\* unregisterUserNode, line 172: node._client && node._client.connected
AwaitDisconnect == clientConnected

\* mutant: the broadcast goes to every known id
Recipients_Mutant(users) == Ids

\* for (var id in node._users) ... node._users[id].status(...)
Recipients(users) == users

\* status calls made when `n` handler sets each broadcast once
Broadcast(users, n) == [i \in Ids |-> IF i \in Recipients(users) THEN n ELSE 0]

\* on('close'), line 292: if (this.connected) once('close', done)
TeardownDefers == connected

\* mutant: done is called without testing the flag
TeardownImmediate_Mutant == TRUE

\* on('close'), line 296: if (!this.connected) done()
TeardownImmediate == ~connected

\* mutant: the test of the closing latch is inverted
RemoveDelegates_Inverted == _closing

\* removeEventCallback, line 206
RemoveDelegates == ~_closing

\* mutant: the close listener never broadcasts
CloseBroadcasts_Mutant == FALSE

\* _connect 'close' listener, line 124: if (node.connected), for an
\* attached listener
CloseBroadcasts == connected /\ handlers > 0

\* one more register/unregister/teardown call in the current period
Bump(n) == IF n < CallsTracked THEN n + 1 ELSE n

Init ==
  /\ connected = FALSE
  /\ _connecting = FALSE
  /\ _closing = FALSE
  /\ _users = {}
  /\ handlers = 0
  /\ clientState = "new"
  /\ clientConnected = FALSE
  /\ pendingDone = 0
  /\ closeOnce = 0
  /\ teardownCalls = 0
  /\ teardownResolved = 0
  /\ destroyCalls = 0
  /\ periodConnects = 0
  /\ periodCalls = 0
  /\ lastStatus = [i \in Ids |-> NoStatus]
  /\ last = [op |-> "init", id |-> 0,
             usersBefore |-> {}, closingBefore |-> FALSE,
             connectedBefore |-> FALSE, connectingBefore |-> FALSE,
             clientConnectedBefore |-> FALSE,
             connectCalled |-> FALSE, disconnectCalled |-> "none",
             destroyCalled |-> FALSE,
             unregDone |-> 0, teardownDone |-> 0,
             status |-> NoStatus, times |-> NoCalls,
             args |-> <<>>, delegated |-> <<>>, result |-> "none"]

\* registerUserNode(userNode) with userNode.id = id, including _connect
registerUserNode(id) ==
  LET users == _users \cup {id}
      doConnect == IsOnlyUser(users) /\ ConnectGuard
  IN /\ doConnect => handlers < MaxHandlers
     /\ _users' = users
     /\ IF doConnect
        THEN /\ _connecting' = TRUE
             /\ handlers' = handlers + 1
             /\ clientState' = ClientAfterConnect(clientState)
        ELSE UNCHANGED <<_connecting, handlers, clientState>>
     /\ periodConnects' = (IF _users = {} THEN 0 ELSE periodConnects)
                          + (IF doConnect THEN 1 ELSE 0)
     /\ periodCalls' = IF _users = {} THEN 1 ELSE Bump(periodCalls)
     /\ lastStatus' = [lastStatus EXCEPT ![id] = NoStatus]
     /\ last' = [Effect("register", id) EXCEPT
                   !.connectCalled = doConnect, !.result = "ok"]
     /\ UNCHANGED <<connected, _closing, clientConnected, pendingDone,
                    closeOnce, tearVars>>

\* mutant: the trailing done() of line 179 is missing, so an unregister that
\* leaves user nodes behind never resolves
unregisterUserNode_Mutant(id) ==
  LET users == _users \ {id}
      disc == ~UnregisterShortCircuit /\ NoUsersLeft(users)
      await == disc /\ AwaitDisconnect
  IN /\ await => pendingDone < MaxPending
     /\ _users' = users
     /\ clientState' = IF disc THEN ClientAfterDisconnect(clientState)
                       ELSE clientState
     /\ pendingDone' = IF await THEN pendingDone + 1 ELSE pendingDone
     /\ periodCalls' = Bump(periodCalls)
     /\ lastStatus' = [lastStatus EXCEPT ![id] = NoStatus]
     /\ last' = [Effect("unregister", id) EXCEPT
                   !.disconnectCalled = IF await THEN "await"
                                        ELSE IF disc THEN "forget" ELSE "none",
                   !.unregDone = IF UnregisterShortCircuit \/ (disc /\ ~await)
                                 THEN 1 ELSE 0,
                   !.result = "ok"]
     /\ UNCHANGED <<connected, _connecting, _closing, handlers,
                    clientConnected, closeOnce, tearVars, periodConnects>>

\* unregisterUserNode(userNode, done) with userNode.id = id
unregisterUserNode(id) ==
  LET users == _users \ {id}
      disc == ~UnregisterShortCircuit /\ NoUsersLeft(users)
      await == disc /\ AwaitDisconnect
  IN /\ await => pendingDone < MaxPending
     /\ _users' = users
     /\ clientState' = IF disc THEN ClientAfterDisconnect(clientState)
                       ELSE clientState
     /\ pendingDone' = IF await THEN pendingDone + 1 ELSE pendingDone
     /\ periodCalls' = Bump(periodCalls)
     /\ lastStatus' = [lastStatus EXCEPT ![id] = NoStatus]
     /\ last' = [Effect("unregister", id) EXCEPT
                   !.disconnectCalled = IF await THEN "await"
                                        ELSE IF disc THEN "forget" ELSE "none",
                   !.unregDone = IF await THEN 0 ELSE 1,
                   !.result = "ok"]
     /\ UNCHANGED <<connected, _connecting, _closing, handlers,
                    clientConnected, closeOnce, tearVars, periodConnects>>

\* mutant: the connect listener broadcasts but does not set node.connected
OnConnect_Mutant(op) ==
  /\ _connecting' = FALSE
  /\ connected' = connected
  /\ lastStatus' = [i \in Ids |-> IF i \in Recipients(_users)
                                  THEN StatusConnected ELSE lastStatus[i]]
  /\ last' = [Effect(op, 0) EXCEPT
                !.status = StatusConnected,
                !.times = Broadcast(_users, handlers)]

\* 'connect' listeners, lines 98-110, run once per attached handler set
OnConnect(op) ==
  /\ _connecting' = FALSE
  /\ connected' = TRUE
  /\ lastStatus' = [i \in Ids |-> IF i \in Recipients(_users)
                                  THEN StatusConnected ELSE lastStatus[i]]
  /\ last' = [Effect(op, 0) EXCEPT
                !.status = StatusConnected,
                !.times = Broadcast(_users, handlers)]

\* mutant: the reconnect listener takes the coordinator back to connecting
OnReconnect_Mutant(op) ==
  /\ lastStatus' = [i \in Ids |-> IF i \in Recipients(_users)
                                  THEN StatusConnecting ELSE lastStatus[i]]
  /\ last' = [Effect(op, 0) EXCEPT
                !.status = StatusConnecting,
                !.times = Broadcast(_users, handlers)]
  /\ connected' = FALSE
  /\ _connecting' = TRUE

\* 'reconnect' listeners, lines 111-121
OnReconnect(op) ==
  /\ lastStatus' = [i \in Ids |-> IF i \in Recipients(_users)
                                  THEN StatusConnecting ELSE lastStatus[i]]
  /\ last' = [Effect(op, 0) EXCEPT
                !.status = StatusConnecting,
                !.times = Broadcast(_users, handlers)]
  /\ UNCHANGED <<connected, _connecting>>

\* mutant: the close listener also clears node._connecting
OnClose_Mutant(op, unregDone, teardownDone) ==
  /\ connected' = FALSE
  /\ IF CloseBroadcasts
     THEN /\ lastStatus' = [i \in Ids |-> IF i \in Recipients(_users)
                                          THEN StatusDisconnected
                                          ELSE lastStatus[i]]
          /\ last' = [Effect(op, 0) EXCEPT
                        !.status = StatusDisconnected,
                        !.times = Broadcast(_users, 1),
                        !.unregDone = unregDone,
                        !.teardownDone = teardownDone]
     ELSE /\ lastStatus' = lastStatus
          /\ last' = [Effect(op, 0) EXCEPT
                        !.unregDone = unregDone,
                        !.teardownDone = teardownDone]
  /\ _connecting' = FALSE

\* 'close' listeners, lines 123-138: the first listener that finds
\* node.connected set clears it and broadcasts; the others only log.
OnClose(op, unregDone, teardownDone) ==
  /\ connected' = FALSE
  /\ IF CloseBroadcasts
     THEN /\ lastStatus' = [i \in Ids |-> IF i \in Recipients(_users)
                                          THEN StatusDisconnected
                                          ELSE lastStatus[i]]
          /\ last' = [Effect(op, 0) EXCEPT
                        !.status = StatusDisconnected,
                        !.times = Broadcast(_users, 1),
                        !.unregDone = unregDone,
                        !.teardownDone = teardownDone]
     ELSE /\ lastStatus' = lastStatus
          /\ last' = [Effect(op, 0) EXCEPT
                        !.unregDone = unregDone,
                        !.teardownDone = teardownDone]
  /\ UNCHANGED _connecting

\* the client established its broker connection and emits 'connect'
EmitConnect ==
  /\ clientState = "open"
  /\ ~clientConnected
  /\ clientConnected' = TRUE
  /\ OnConnect("connect")
  /\ UNCHANGED <<_closing, _users, handlers, clientState, pendingDone,
                 closeOnce, tearVars, periodConnects, periodCalls>>

\* the client reports a reconnect in progress and emits 'reconnect'
EmitReconnect ==
  /\ clientState = "open"
  /\ OnReconnect("reconnect")
  /\ UNCHANGED <<_closing, _users, handlers, clientVars, tearVars,
                 periodConnects, periodCalls>>

\* the client lost its connection, or a connect attempt failed: 'close'
EmitClose ==
  /\ clientState = "open"
  /\ clientConnected' = FALSE
  /\ OnClose("close", 0, 0)
  /\ UNCHANGED <<_closing, _users, handlers, clientState, pendingDone,
                 closeOnce, tearVars, periodConnects, periodCalls>>

\* a requested disconnect completes: 'close', then the disconnect callbacks
DisconnectComplete ==
  /\ clientState = "ending"
  /\ clientState' = "idle"
  /\ clientConnected' = FALSE
  /\ pendingDone' = 0
  /\ OnClose("disconnected", pendingDone, 0)
  /\ UNCHANGED <<_closing, _users, handlers, closeOnce, tearVars,
                 periodConnects, periodCalls>>

\* the destroyed client reports its final 'close'
FinalClose ==
  /\ clientState = "destroying"
  /\ clientState' = "destroyed"
  /\ clientConnected' = FALSE
  /\ pendingDone' = 0
  /\ closeOnce' = 0
  /\ teardownResolved' = teardownResolved + closeOnce
  /\ OnClose("finalClose", pendingDone, closeOnce)
  /\ UNCHANGED <<_closing, _users, handlers, teardownCalls, destroyCalls,
                 periodConnects, periodCalls>>

\* this.on('close', function (done) {...}), lines 290-299
teardown ==
  /\ teardownCalls < MaxTeardowns
  /\ teardownCalls' = teardownCalls + 1
  /\ _closing' = TRUE
  /\ closeOnce' = IF TeardownDefers THEN closeOnce + 1 ELSE closeOnce
  /\ clientState' = ClientAfterDestroy(clientState)
  /\ destroyCalls' = destroyCalls + 1
  /\ teardownResolved' = IF TeardownImmediate THEN teardownResolved + 1
                         ELSE teardownResolved
  /\ periodCalls' = Bump(periodCalls)
  /\ last' = [Effect("teardown", 0) EXCEPT
                !.destroyCalled = TRUE,
                !.teardownDone = IF TeardownImmediate THEN 1 ELSE 0]
  /\ UNCHANGED <<connected, _connecting, _users, handlers, clientConnected,
                 pendingDone, periodConnects, lastStatus>>

\* addEventCallback(topic, eventCallback), lines 193-195
addEventCallback(topic, eventCallback) ==
  /\ last' = [Effect("addEventCallback", 0) EXCEPT
                !.args = <<topic, eventCallback>>,
                !.delegated = <<"addEventCallback", topic, eventCallback>>,
                !.result = "ok"]
  /\ UNCHANGED <<coordVars, clientVars, tearVars, periodConnects,
                 periodCalls, lastStatus>>

\* removeEventCallback(topic, eventCallback), lines 205-209
removeEventCallback(topic, eventCallback) ==
  /\ last' = [Effect("removeEventCallback", 0) EXCEPT
                !.args = <<topic, eventCallback>>,
                !.delegated = IF RemoveDelegates
                              THEN <<"removeEventCallback", topic,
                                     eventCallback>>
                              ELSE <<>>,
                !.result = "ok"]
  /\ UNCHANGED <<coordVars, clientVars, tearVars, periodConnects,
                 periodCalls, lastStatus>>

\* A send is handed to the underlying client; its outcome is the caller's.
Send(op) ==
  /\ \E r \in ClientSendResult(handlers) :
        last' = [Effect(op, 0) EXCEPT !.delegated = <<op>>, !.result = r]
  /\ UNCHANGED <<coordVars, clientVars, tearVars, periodConnects,
                 periodCalls, lastStatus>>

\* asyncRequest(request, responseCallback), lines 225-227
asyncRequest == Send("asyncRequest")

\* sendEvent(event), lines 237-239
sendEvent == Send("sendEvent")

\* sendResponse(response), lines 250-252
sendResponse == Send("sendResponse")

Next ==
  \/ \E id \in Ids : registerUserNode(id)
  \/ \E id \in Ids : unregisterUserNode(id)
  \/ EmitConnect
  \/ EmitReconnect
  \/ EmitClose
  \/ DisconnectComplete
  \/ FinalClose
  \/ teardown
  \/ \E t \in Topics, cb \in Callbacks : addEventCallback(t, cb)
  \/ \E t \in Topics, cb \in Callbacks : removeEventCallback(t, cb)
  \/ asyncRequest
  \/ sendEvent
  \/ sendResponse

Spec == Init /\ [][Next]_vars

\* The underlying client completes a requested disconnect and delivers the
\* final close of a destroyed session.
LiveSpec == Spec /\ WF_vars(DisconnectComplete) /\ WF_vars(FinalClose)

\* ------------------------------------------------------------ sanity
TypeOK ==
  /\ connected \in BOOLEAN /\ _connecting \in BOOLEAN /\ _closing \in BOOLEAN
  /\ _users \subseteq Ids
  /\ handlers \in 0..MaxHandlers
  /\ clientState \in {"new", "open", "ending", "idle", "destroying", "destroyed"}
  /\ clientConnected \in BOOLEAN
  /\ pendingDone \in 0..MaxPending
  /\ closeOnce \in 0..MaxTeardowns
  /\ teardownCalls \in 0..MaxTeardowns
  /\ destroyCalls \in 0..MaxTeardowns

\* the coordinator's flag mirrors the client's once listeners are attached
FlagsInSync == connected = clientConnected

\* -------------------------------------------------------------- claims
SendOps == {"asyncRequest", "sendEvent", "sendResponse"}

\* C1 (as stated): with no teardown, while the registry is non-empty the
\* client's connect has been invoked exactly once since the registry last
\* went from empty to non-empty.
C1_ConnectOncePerPeriod ==
  (teardownCalls = 0 /\ _users # {}) => periodConnects = 1

\* C2 (as stated): while the closing latch is not set, disconnect is invoked
\* exactly by an unregister that removes the last entry (registry 1 -> 0);
\* an unregister of an absent id requests no disconnect.
C2_DisconnectOnlyOnLastUser ==
  ~last.closingBefore =>
     ((last.disconnectCalled # "none")
        <=> (last.op = "unregister" /\ last.usersBefore = {last.id}))

\* C3 (as stated): registering an id that is still registered never invokes
\* connect on the underlying client.
C3_ReRegisterNeverConnects ==
  (last.op = "register" /\ last.id \in last.usersBefore)
     => ~last.connectCalled

\* C4: after teardown set the closing latch, every unregister resolves its
\* completion signal in the call itself and invokes no disconnect, also when
\* it empties the registry.
C4_UnregisterAfterTeardown ==
  (last.op = "unregister" /\ last.closingBefore)
     => /\ last.unregDone = 1
        /\ last.disconnectCalled = "none"
        /\ ~last.destroyCalled

\* C4 witness: after teardown, the last user of a still connected client
\* unregisters.
C4_Witness ==
  /\ last.op = "unregister" /\ last.closingBefore
  /\ last.usersBefore = {last.id}
  /\ last.clientConnectedBefore

\* C5: every status broadcast reaches exactly the user nodes registered when
\* the notification is handled; registering delivers no status, so a later
\* registrant holds no status from an earlier notification.
C5_BroadcastToRegistered ==
  /\ last.status # NoStatus
       => /\ {i \in Ids : last.times[i] > 0} = last.usersBefore
          /\ _users = last.usersBefore
          /\ \A i \in _users : lastStatus[i] = last.status
  /\ last.op = "register"
       => /\ last.status = NoStatus
          /\ \A i \in Ids : last.times[i] = 0
          /\ lastStatus[last.id] = NoStatus

\* C5 witness: a notification is broadcast while one id is registered and
\* another is not.
C5_Witness ==
  /\ last.status # NoStatus
  /\ \E i \in Ids : i \in _users
  /\ \E j \in Ids : j \notin _users

\* C6 (as stated): once the closing latch is set, no operation invokes
\* connect on the underlying client.
C6_NoConnectAfterTeardown ==
  last.closingBefore => ~last.connectCalled

\* C7: each teardown completion signal is resolved at most once and is
\* either resolved or still held for the client's close; a teardown that
\* finds `connected` set leaves it pending until the close notification that
\* follows destroy, any other teardown resolves it in the call.
C7_TeardownCompletion ==
  /\ teardownResolved + closeOnce = teardownCalls
  /\ last.op = "teardown"
       => /\ last.destroyCalled
          /\ last.teardownDone = (IF last.connectedBefore THEN 0 ELSE 1)
  /\ (last.teardownDone > 0 /\ last.op # "teardown")
       => last.op = "finalClose"
  /\ closeOnce > 0 => clientState = "destroying"

\* C7 witness: a deferred teardown completes on the final close while a user
\* node is still registered.
C7_Witness ==
  /\ last.op = "finalClose"
  /\ last.teardownDone = 1
  /\ last.connectedBefore
  /\ _users # {}

\* C8 (as stated): a teardown made with the closing latch already set is a
\* no-op, so destroy is invoked at most once and no completion is resolved
\* by the repeated request.
C8_TeardownIdempotent ==
  /\ destroyCalls <= 1
  /\ (last.op = "teardown" /\ last.closingBefore)
        => (~last.destroyCalled /\ last.teardownDone = 0)

\* C9: an unregister made while not closing that empties the registry holds
\* its completion signal for the disconnect when the client is connected and
\* resolves it in the call otherwise; whenever such a signal resolves the
\* client is not connected.
C9_UnregisterCompletion ==
  /\ (last.op = "unregister" /\ ~last.closingBefore
        /\ last.usersBefore \subseteq {last.id})
       => IF last.clientConnectedBefore
          THEN /\ last.unregDone = 0
               /\ last.disconnectCalled = "await"
               /\ pendingDone > 0
               /\ clientConnected
          ELSE /\ last.unregDone = 1
               /\ last.disconnectCalled = "forget"
               /\ ~clientConnected
  /\ (last.unregDone > 0 /\ last.op # "unregister")
       => /\ last.op \in {"disconnected", "finalClose"}
          /\ ~clientConnected
  /\ pendingDone > 0 => clientState \in {"ending", "destroying"}

\* C9 witness: the disconnect requested by the last unregister of a connected
\* client completes and resolves the held signal.
C9_Witness ==
  /\ last.op = "disconnected"
  /\ last.unregDone > 0
  /\ last.clientConnectedBefore
  /\ _users = {}

\* C10 (as stated): after the teardown latch is set, register and the three
\* sends surface AlreadyClosing instead of being carried out; unregister and
\* removeEventCallback are silent.
C10_AlreadyClosingError ==
  last.closingBefore =>
     /\ last.op \in SendOps \cup {"register"}
          => /\ last.result = "AlreadyClosing"
             /\ last.delegated = <<>>
             /\ _users = last.usersBefore
     /\ last.op \in {"unregister", "removeEventCallback"}
          => /\ last.result = "ok"
             /\ last.delegated = <<>>
             /\ last.disconnectCalled = "none"

CloseOps == {"close", "disconnected", "finalClose"}
NotificationOps == {"connect", "reconnect"} \cup CloseOps

\* the status a notification maps to
StatusOf(op) ==
  CASE op = "connect" -> StatusConnected
    [] op = "reconnect" -> StatusConnecting
    [] OTHER -> StatusDisconnected

\* C11 (as stated): two registrations of distinct ids against an empty
\* registry, with only client notifications in between, cause exactly one
\* connect invocation.
C11_TwoRegistersOneConnect ==
  (Cardinality(_users) = 2 /\ periodCalls = 2) => periodConnects = 1

\* C12: an unregister that leaves a user node registered invokes neither
\* disconnect nor destroy, and disconnect is only ever invoked with the
\* registry empty.
C12_NoDisconnectWhileUsed ==
  /\ (last.op = "unregister" /\ _users # {})
       => (last.disconnectCalled = "none" /\ ~last.destroyCalled)
  /\ last.disconnectCalled # "none" => _users = {}

\* C12 witness: one of two user nodes of a connected client unregisters
\* before any teardown.
C12_Witness ==
  /\ last.op = "unregister"
  /\ last.id \in last.usersBefore
  /\ _users # {}
  /\ ~last.closingBefore
  /\ last.clientConnectedBefore

\* C13: removeEventCallback changes no coordinator or client state; once the
\* closing latch is set it is not handed to the client, before that it is
\* handed over with exactly the topic and callback it was called with.
C13_RemoveEventCallbackFrame ==
  [][last'.op = "removeEventCallback" =>
       /\ UNCHANGED <<coordVars, clientVars, tearVars>>
       /\ Len(last'.args) = 2
       /\ last'.result = "ok"
       /\ last'.delegated = IF _closing THEN <<>>
                            ELSE <<"removeEventCallback">> \o last'.args]_vars

\* C13 witness: removeEventCallback is called after teardown and ignored.
C13_Witness ==
  /\ last.op = "removeEventCallback"
  /\ last.closingBefore
  /\ last.delegated = <<>>

\* C14 (as stated): a close notification received while connecting, before
\* connected was ever reached, clears the connecting flag (back to idle).
C14_CloseWhileConnectingGoesIdle ==
  (last.op \in CloseOps /\ last.connectingBefore /\ ~last.connectedBefore)
     => (~_connecting /\ ~connected)

\* C14 (amended): a close notification received while connecting only logs:
\* the connecting flag stays set, connected stays clear and no status is
\* broadcast; a registration made while connecting is set invokes no connect.
C14_CloseWhileConnectingStays ==
  /\ (last.op \in CloseOps /\ last.connectingBefore /\ ~last.connectedBefore)
       => (_connecting /\ ~connected /\ last.status = NoStatus)
  /\ (last.op = "register" /\ last.connectingBefore) => ~last.connectCalled

\* C14 witness: the client reports a failed connect attempt while a user
\* node is registered.
C14_Witness ==
  /\ last.op = "close"
  /\ last.connectingBefore
  /\ ~last.connectedBefore
  /\ _users # {}

\* C15: connecting and connected are never both set, and connect is only
\* invoked with both clear, after which connecting alone is set.
C15_FlagsExclusive ==
  /\ ~(connected /\ _connecting)
  /\ last.connectCalled
       => /\ ~last.connectedBefore /\ ~last.connectingBefore
          /\ _connecting /\ ~connected

\* C15 witness: connect is invoked again after an earlier connection came
\* and went.
C15_Witness ==
  /\ last.connectCalled
  /\ handlers >= 2

\* C16: every notification is answered in the step that handles it: connect
\* with green, reconnect with yellow, close-while-connected with red, to
\* every registered user node; no other step delivers or changes a status,
\* so each sink sees the statuses in the order the client reported them.
C16_StatusOrder ==
  [][/\ (last'.op \in {"connect", "reconnect"}
           \/ (last'.op \in CloseOps /\ connected))
        => /\ last'.status = StatusOf(last'.op)
           /\ \A i \in _users : /\ last'.times[i] >= 1
                                /\ lastStatus'[i] = StatusOf(last'.op)
     /\ last'.status # NoStatus
        => /\ last'.op \in NotificationOps
           /\ last'.status = StatusOf(last'.op)
     /\ \A i \in Ids :
          lastStatus'[i] # lastStatus[i]
            => \/ /\ last'.op \in NotificationOps
                  /\ i \in _users
                  /\ lastStatus'[i] = last'.status
               \/ /\ last'.op \in {"register", "unregister"}
                  /\ last'.id = i
                  /\ lastStatus'[i] = NoStatus]_vars

\* C16 witness: a user node that was shown connected is shown disconnected
\* by the close that follows.
C16_Witness ==
  /\ last.op \in CloseOps
  /\ last.connectedBefore
  /\ \E i \in _users : lastStatus[i] = StatusDisconnected

\* C17: a reconnect notification sends yellow to every registered user node
\* and to nobody else, and leaves connected, connecting, the closing latch
\* and the registry as they were.
C17_ReconnectCosmetic ==
  [][last'.op = "reconnect" =>
       /\ UNCHANGED <<connected, _connecting, _closing, _users>>
       /\ last'.status = StatusConnecting
       /\ \A i \in Ids : IF i \in _users
                         THEN /\ last'.times[i] >= 1
                              /\ lastStatus'[i] = StatusConnecting
                         ELSE /\ last'.times[i] = 0
                              /\ lastStatus'[i] = lastStatus[i]]_vars

\* C17 witness: a reconnect is reported while the coordinator is connected
\* and a user node is registered.
C17_Witness ==
  /\ last.op = "reconnect"
  /\ last.connectedBefore
  /\ connected
  /\ _users # {}

\* C18 (as stated): at most one set of connect/reconnect/close listeners is
\* attached, so a notification makes exactly one status call per registered
\* user node.
C18_SingleHandlerSet ==
  /\ handlers <= 1
  /\ last.status # NoStatus => \A i \in _users : last.times[i] = 1

\* C19: a registered user node whose latest status since it registered is
\* green/dot/connected implies the coordinator's connected flag is set.
C19_GreenImpliesConnected ==
  \A i \in _users : lastStatus[i] = StatusConnected => connected

\* C19 witness: a registered user node shows connected while another one,
\* registered later, has received nothing.
C19_Witness ==
  /\ \E i \in _users : lastStatus[i] = StatusConnected
  /\ \E j \in _users : lastStatus[j] = NoStatus

\* C20: every unregister either resolves its completion signal in the call
\* or hands it to the client's disconnect, never both and never neither; a
\* held signal is resolved once, when the client completes; and every held
\* signal is eventually resolved.
C20_UnregisterResolves ==
  /\ [][/\ last'.op = "unregister"
             => /\ last'.unregDone + (pendingDone' - pendingDone) = 1
                /\ last'.unregDone \in {0, 1}
        /\ last'.op # "unregister"
             => /\ pendingDone' <= pendingDone
                /\ last'.unregDone = pendingDone - pendingDone']_vars
  /\ (pendingDone > 0) ~> (pendingDone = 0)

\* C20 witness: teardown came between an unregister that awaits its
\* disconnect and the client's close, which resolves the held signal.
C20_Witness ==
  /\ last.op = "finalClose"
  /\ last.unregDone > 0
  /\ _closing

====
